---- MODULE Spec2Model ----
(***************************************************************************)
(* Model of heat/engine/resources/neutron/router.py: the Router,           *)
(* RouterInterface and RouterGateway resource plugins.                     *)
(*                                                                         *)
(* Python strings are sequences of one-character strings, so that          *)
(* str.replace, str.split and '%s' formatting are computed, not assumed.   *)
(***************************************************************************)
EXTENDS Naturals, Sequences, FiniteSets

VARIABLES
    rtype,        \* class of the resource under operation
    properties,   \* self.properties of that resource
    resource_id,  \* self.resource_id (None while unset)
    action,       \* engine action of the resource: INIT, CREATE, DELETE, DESTROYED
    raised,       \* exception the last handler ended with ("none": it returned)
    calls,        \* networking API calls the last handler issued, in order
    answer,       \* what the API answered to the last of these calls
    attach,       \* the attach call that succeeded (NoCall before)
    prev,         \* <<action, raised>> as they were before the last handler
    agents,       \* ret['agents'] of the last list_l3_agent_hosting_routers
    stack,        \* self.stack: resource name -> declared resource
    deps          \* the Dependencies graph, a set of (dependent, dependency)

vars == <<rtype, properties, resource_id, action, raised, calls, answer,
          attach, prev, agents, stack, deps>>

lifecycleVars == <<rtype, properties, resource_id, action, raised, calls,
                   answer, attach, prev, agents>>

(***************************************************************************)
(* Bounds                                                                  *)
(***************************************************************************)
MaxLen == 2

MaxTokens == 4

MaxAgents == 2

NumRes == 2

(***************************************************************************)
(* Python values                                                           *)
(***************************************************************************)
\* None: a one-element sequence that is no string over Chars
None == <<"<None>">>

Chars == {"a", ":", "="}

PlainChars == {"a"}

SeqsUpTo(S, n) == UNION {[1..k -> S] : k \in 0..n}

Strs == SeqsUpTo(Chars, MaxLen)

PlainStrs == SeqsUpTo(PlainChars, MaxLen)

\* truth value of a Python object: None and '' are false
Truthy(v) == v # None /\ v # <<>>

\* a or b
PyOr(a, b) == IF Truthy(a) THEN a ELSE b

\* '%s' % v
Str(v) == IF v = None THEN <<"N", "o", "n", "e">> ELSE v

\* s.replace(old, new) for one-character old and new
Replace(s, old, new) == [i \in 1..Len(s) |-> IF s[i] = old THEN new ELSE s[i]]

RECURSIVE Split(_, _)
\* s.split(sep) for a one-character sep
Split(s, sep) ==
    IF \E i \in 1..Len(s) : s[i] = sep
    THEN LET i == CHOOSE j \in 1..Len(s) :
                      s[j] = sep /\ \A k \in 1..(j - 1) : s[k] # sep
         IN  <<SubSeq(s, 1, i - 1)>> \o Split(SubSeq(s, i + 1, Len(s)), sep)
    ELSE <<s>>

\* list.insert(i, x): x is put before the element at Python index i
InsertAt(l, i, x) == SubSeq(l, 1, i) \o <<x>> \o SubSeq(l, i + 1, Len(l))

(***************************************************************************)
(* The networking API and the engine around the handlers                   *)
(***************************************************************************)
\* what the API answers to a call: done, 404, any other client error
Answers == {"ok", "not_found", "error"}

\* ids the server hands out (found by name, or given to a new router)
ServerIds == Strs \ {<<>>}

\* a name given in a 'subnet' or 'network' property
NameOrIds == {<<"n">>}

NoCall == [api |-> "none", target |-> None, body |-> <<>>]

Call(api, target, body) == [api |-> api, target |-> target, body |-> body]

\* NeutronResource._handle_not_found_exception: a 404 is swallowed, any
\* other client error is raised again
handle_not_found_exception(ans) ==
    IF ans = "not_found" THEN "none" ELSE "NeutronClientException"

\* NeutronResource.validate_mex_properties: the two are mutually exclusive,
\* and one of them is needed when required
validate_mex_properties(p1, p2, required) ==
    /\ ~(Truthy(p1) /\ Truthy(p2))
    /\ required => (Truthy(p1) \/ Truthy(p2))

\* neutron_utils.resolve_subnet / resolve_network: a name given in props[key]
\* is looked up (found) and replaces props[id_key]; props[id_key] is returned
resolve(props_key, props_id_key, found) ==
    IF Truthy(props_key) THEN found ELSE props_id_key

\* the engine creates a resource once, from INIT
CanCreate == action = "INIT"

\* the engine deletes a resource that is not yet destroyed
CanDelete == action \in {"INIT", "CREATE", "DELETE"}

\* the end of a handler: what it returned or raised, what it called, and
\* the identifier it leaves
Finish(act, exc, cs, ans, rid, att) ==
    /\ action' = act
    /\ raised' = exc
    /\ calls' = cs
    /\ answer' = ans
    /\ resource_id' = rid
    /\ attach' = att
    /\ prev' = <<action, raised>>

(***************************************************************************)
(* RouterInterface                                                         *)
(***************************************************************************)
\* the literal 'subnet_id' (key in handle_create, tokens.insert in handle_delete)
SUBNET_ID == <<"s", "u", "b", "n", "e", "t", "_", "i", "d">>

PORT_ID == <<"p", "o", "r", "t", "_", "i", "d">>

RouterInterfaceProps ==
    [router_id : Strs \cup {None},
     subnet    : NameOrIds \cup {None, <<>>},
     subnet_id : Strs \cup {None},
     port_id   : Strs \cup {None}]

RouterInterface_validate(p) ==
    /\ p.router_id # None
    /\ validate_mex_properties(p.subnet, p.subnet_id, FALSE)
    /\ IF ~Truthy(p.subnet_id)
       THEN validate_mex_properties(p.subnet, p.port_id, TRUE)
       ELSE IF ~Truthy(p.subnet)
            THEN validate_mex_properties(p.subnet_id, p.port_id, TRUE)
            ELSE TRUE

\* '%s:%s=%s' % (router_id, key, value)
EncodeInterfaceId(router_id, key, value) ==
    Str(router_id) \o <<":">> \o key \o <<"=">> \o Str(value)

\* mutant: the '=' is not turned into ':' before the split
InterfaceTokens_ColonOnly(rid) ==
    LET tokens == Split(rid, ":")
    IN  IF Len(tokens) = 2 THEN InsertAt(tokens, 1, SUBNET_ID) ELSE tokens

\* mutant: the kind implied for a two-token identifier is the port kind
InterfaceTokens_PortKind(rid) ==
    LET tokens == Split(Replace(rid, "=", ":"), ":")
    IN  IF Len(tokens) = 2 THEN InsertAt(tokens, 1, PORT_ID) ELSE tokens

\* tokens = self.resource_id.replace('=', ':').split(':'), with the kind
\* inserted into a two-token identifier
InterfaceTokens(rid) ==
    LET tokens == Split(Replace(rid, "=", ":"), ":")
    IN  IF Len(tokens) = 2 THEN InsertAt(tokens, 1, SUBNET_ID) ELSE tokens

\* mutant: the identifier is set before the attach call is known to succeed
IdSetBeforeCall(ans, old, new) == new

\* resource_id_set follows the API call: it is reached only when the call
\* did not raise
IdSetAfterCall(ans, old, new) == IF ans = "ok" THEN new ELSE old

\* mutant: no except clause, a 404 propagates
RouterInterface_try_remove_Uncaught(ans) ==
    IF ans = "ok" THEN "none" ELSE "NeutronClientException"

\* try: client.remove_interface_router(...) except NeutronClientException
RouterInterface_try_remove(ans) ==
    IF ans = "ok" THEN "none" ELSE handle_not_found_exception(ans)

\* mutant: the guard on an unset identifier is missing
RouterInterface_unset_NoGuard(rid) == FALSE

\* if not self.resource_id: return
RouterInterface_unset(rid) == ~Truthy(rid)

RouterInterface_handle_create ==
    /\ rtype = "RouterInterface"
    /\ CanCreate
    /\ \E found \in ServerIds \cup {None}, ans \in Answers :
         LET router_id == properties.router_id
             resolved  == resolve(properties.subnet, properties.subnet_id, found)
             key       == IF Truthy(resolved) THEN SUBNET_ID ELSE PORT_ID
             value     == IF Truthy(resolved) THEN resolved
                                              ELSE properties.port_id
             call      == Call("add_interface_router", router_id, <<key, value>>)
             new_id    == EncodeInterfaceId(router_id, key, value)
         IN  IF Truthy(properties.subnet) /\ found = None
             THEN Finish("CREATE", "NotFound", <<>>, "none", resource_id, attach)
             ELSE Finish("CREATE",
                         IF ans = "ok" THEN "none" ELSE "NeutronClientException",
                         <<call>>, ans,
                         IdSetAfterCall(ans, resource_id, new_id),
                         IF ans = "ok" THEN call ELSE attach)
    /\ UNCHANGED <<rtype, properties, stack, deps, agents>>

RouterInterface_handle_delete ==
    /\ rtype = "RouterInterface"
    /\ CanDelete
    /\ \E ans \in Answers :
         IF RouterInterface_unset(resource_id)
         THEN Finish("DELETE", "none", <<>>, "none", resource_id, attach)
         ELSE LET tokens == InterfaceTokens(resource_id)
              IN  IF Len(tokens) # 3
                  THEN Finish("DELETE", "ValueError", <<>>, "none",
                              resource_id, attach)
                  ELSE Finish("DELETE", RouterInterface_try_remove(ans),
                              <<Call("remove_interface_router", tokens[1],
                                     <<tokens[2], tokens[3]>>)>>,
                              ans, resource_id, attach)
    /\ UNCHANGED <<rtype, properties, stack, deps, agents>>

(***************************************************************************)
(* RouterGateway                                                           *)
(***************************************************************************)
RouterGatewayProps ==
    [router_id  : Strs \cup {None},
     network_id : Strs \cup {None},
     network    : NameOrIds \cup {None, <<>>}]

RouterGateway_validate(p) ==
    /\ p.router_id # None
    /\ validate_mex_properties(p.network, p.network_id, TRUE)

\* '%s:%s' % (router_id, network_id)
EncodeGatewayId(router_id, network_id) ==
    Str(router_id) \o <<":">> \o Str(network_id)

\* try: client.remove_gateway_router(router_id) except NeutronClientException
RouterGateway_try_remove(ans) ==
    IF ans = "ok" THEN "none" ELSE handle_not_found_exception(ans)

RouterGateway_handle_create ==
    /\ rtype = "RouterGateway"
    /\ CanCreate
    /\ \E found \in ServerIds \cup {None}, ans \in Answers :
         LET router_id  == properties.router_id
             network_id == resolve(properties.network, properties.network_id,
                                   found)
             call       == Call("add_gateway_router", router_id,
                                <<"network_id", network_id>>)
         IN  IF Truthy(properties.network) /\ found = None
             THEN Finish("CREATE", "NotFound", <<>>, "none", resource_id, attach)
             ELSE Finish("CREATE",
                         IF ans = "ok" THEN "none" ELSE "NeutronClientException",
                         <<call>>, ans,
                         IdSetAfterCall(ans, resource_id,
                                        EncodeGatewayId(router_id, network_id)),
                         IF ans = "ok" THEN call ELSE attach)
    /\ UNCHANGED <<rtype, properties, stack, deps, agents>>

RouterGateway_handle_delete ==
    /\ rtype = "RouterGateway"
    /\ CanDelete
    /\ \E ans \in Answers :
         IF ~Truthy(resource_id)
         THEN Finish("DELETE", "none", <<>>, "none", resource_id, attach)
         ELSE LET tokens == Split(resource_id, ":")
              IN  IF Len(tokens) # 2
                  THEN Finish("DELETE", "ValueError", <<>>, "none",
                              resource_id, attach)
                  ELSE Finish("DELETE", RouterGateway_try_remove(ans),
                              <<Call("remove_gateway_router", tokens[1], <<>>)>>,
                              ans, resource_id, attach)
    /\ UNCHANGED <<rtype, properties, stack, deps, agents>>

(***************************************************************************)
(* Router                                                                  *)
(***************************************************************************)
\* an L3 agent id
Agent(i) == [j \in 1..i |-> "g"]

AgentIds == {Agent(i) : i \in 1..MaxAgents}

\* the agents list_l3_agent_hosting_routers may answer with
HostingLists ==
    {l \in SeqsUpTo(AgentIds, MaxAgents) :
        \A i, j \in 1..Len(l) : i # j => l[i] # l[j]}

\* the id create_router answers with
RouterIds == PlainStrs \ {<<>>}

\* an external_gateway_info map, as its (key, value) pair
GatewayInfos(networks) == {<<"network", n>> : n \in networks}

RouterProps ==
    [external_gateway_info : {None} \cup GatewayInfos(NameOrIds),
     l3_agent_id           : {None, <<>>, Agent(1)}]

\* the calls of _replace_agent, when none of them fails
replace_agent(rid, l3_agent_id, hosting) ==
    <<Call("list_l3_agent_hosting_routers", rid, <<>>)>>
    \o [i \in 1..Len(hosting) |->
           Call("remove_router_from_l3_agent", hosting[i], rid)]
    \o (IF Truthy(l3_agent_id)
        THEN <<Call("add_router_to_l3_agent", l3_agent_id, rid)>>
        ELSE <<>>)

\* try: client.delete_router(self.resource_id) except NeutronClientException
Router_try_delete(ans) ==
    IF ans = "ok" THEN "none" ELSE handle_not_found_exception(ans)

\* mutant: the identifier is recorded once the agents are rescheduled
IdSetAfterReschedule(old, new, rescheduled) ==
    IF rescheduled THEN new ELSE old

\* self.resource_id_set(router['id']) stands between create_router and
\* _replace_agent: it is reached whether or not the rescheduling ends well
IdSetBeforeReschedule(old, new, rescheduled) == new

Router_handle_create ==
    /\ rtype = "Router"
    /\ CanCreate
    /\ \E found \in ServerIds \cup {None}, ans \in Answers, rid \in RouterIds,
          hosting \in HostingLists :
         LET l3_agent_id == properties.l3_agent_id
             create == Call("create_router", None, <<>>)
             plan   == IF Truthy(l3_agent_id)
                       THEN replace_agent(rid, l3_agent_id, hosting)
                       ELSE <<>>
         IN  IF properties.external_gateway_info # None /\ found = None
             THEN /\ Finish("CREATE", "NotFound", <<>>, "none", resource_id,
                            attach)
                  /\ agents' = agents
             ELSE IF ans # "ok"
             THEN /\ Finish("CREATE", "NeutronClientException", <<create>>, ans,
                            resource_id, attach)
                  /\ agents' = agents
             ELSE \E done \in 0..Len(plan) :
                    \* done calls of the plan succeed; the next one, if any, fails
                    /\ IF done = Len(plan)
                       THEN Finish("CREATE", "none", <<create>> \o plan, "ok",
                                   IdSetBeforeReschedule(resource_id, rid, TRUE),
                                   create)
                       ELSE Finish("CREATE", "NeutronClientException",
                                   <<create>> \o SubSeq(plan, 1, done + 1),
                                   "error",
                                   IdSetBeforeReschedule(resource_id, rid, FALSE),
                                   create)
                    \* the list call answers once it succeeds
                    /\ agents' = IF done >= 1 THEN hosting ELSE agents
    /\ UNCHANGED <<rtype, properties, stack, deps>>

\* delete_router is called whatever the identifier; when it succeeds the
\* handler returns the task that waits for the router to be gone
Router_handle_delete ==
    /\ rtype = "Router"
    /\ CanDelete
    /\ \E ans \in Answers :
         Finish("DELETE", Router_try_delete(ans),
                <<Call("delete_router", resource_id, <<>>)>>, ans,
                resource_id, attach)
    /\ UNCHANGED <<rtype, properties, stack, deps, agents>>

(***************************************************************************)
(* The dependency pass: add_dependencies over the resources of the stack   *)
(***************************************************************************)
Names == 1..NumRes

\* the None of a (self, None) entry: a resource with no requirement
NoRes == 0

NetA == <<"n", "e", "t", "-", "A">>

NetB == <<"n", "e", "t", "-", "B">>

NetVals == {None, NetA, NetB}

RouterVals == {None, <<"r", "t", "r", "-", "1">>, <<"r", "t", "r", "-", "2">>}

\* a declared resource: its type and what properties.get answers for the
\* properties the pass reads (None for one that is not set)
Decl(t, rid, net, netid, gw) ==
    [type |-> t, router_id |-> rid, network |-> net, network_id |-> netid,
     external_gateway_info |-> gw]

RouterDecls ==
    {Decl("OS::Neutron::Router", None, None, None, gw) :
        gw \in {None} \cup GatewayInfos(NetVals)}

RouterGatewayDecls ==
    {Decl("OS::Neutron::RouterGateway", r, n, i, None) :
        r \in RouterVals, n \in NetVals, i \in NetVals}

RouterInterfaceDecls ==
    {Decl("OS::Neutron::RouterInterface", r, None, None, None) :
        r \in RouterVals}

SubnetDecls ==
    {Decl("OS::Neutron::Subnet", None, n, i, None) :
        n \in NetVals, i \in NetVals}

\* tests/generic_resource.py: a resource with no properties
GenericDecls == {Decl("GenericResource", None, None, None, None)}

Decls ==
    RouterDecls \cup RouterGatewayDecls \cup RouterInterfaceDecls
    \cup SubnetDecls \cup GenericDecls

\* Resource.has_interface: the resource is of the type asked for
has_interface(res, t) == res.type = t

\* Resource.add_dependencies: the resource enters the graph; the declared
\* resources hold resolved values, no references to each other
Resource_add_dependencies(R) == {<<R, NoRes>>}

\* mutant: the subnet's network_id is read before its network
Router_subnet_edges_IdFirst(R, stk) ==
    LET external_gw == stk[R].external_gateway_info
    IN  IF Truthy(external_gw)
        THEN {<<R, S>> : S \in
                 {S \in DOMAIN stk :
                     /\ has_interface(stk[S], "OS::Neutron::Subnet")
                     /\ PyOr(stk[S].network_id, stk[S].network)
                            = external_gw[2]}}
        ELSE {}

\* Router.add_dependencies, after the call of the base class
Router_subnet_edges(R, stk) ==
    LET external_gw == stk[R].external_gateway_info
    IN  IF Truthy(external_gw)
        THEN {<<R, S>> : S \in
                 {S \in DOMAIN stk :
                     /\ has_interface(stk[S], "OS::Neutron::Subnet")
                     /\ PyOr(stk[S].network, stk[S].network_id)
                            = external_gw[2]}}
        ELSE {}

\* mutant: every router interface of the template is depended on
RouterGateway_interface_edges_AnyRouter(R, stk) ==
    {<<R, S>> : S \in
        {S \in DOMAIN stk :
            has_interface(stk[S], "OS::Neutron::RouterInterface")}}

\* mutant: every other resource bound to the same router is depended on
RouterGateway_interface_edges_AnyBinding(R, stk) ==
    {<<R, S>> : S \in
        {S \in DOMAIN stk :
            /\ S # R
            /\ \/ has_interface(stk[S], "OS::Neutron::RouterInterface")
               \/ has_interface(stk[S], "OS::Neutron::RouterGateway")
            /\ stk[S].router_id = stk[R].router_id}}

\* RouterGateway.add_dependencies: the RouterInterface half of the loop
RouterGateway_interface_edges(R, stk) ==
    {<<R, S>> : S \in
        {S \in DOMAIN stk :
            /\ has_interface(stk[S], "OS::Neutron::RouterInterface")
            /\ stk[S].router_id = stk[R].router_id}}

\* RouterGateway.add_dependencies: the Subnet half of the loop
RouterGateway_subnet_edges(R, stk) ==
    {<<R, S>> : S \in
        {S \in DOMAIN stk :
            /\ has_interface(stk[S], "OS::Neutron::Subnet")
            /\ PyOr(stk[S].network, stk[S].network_id)
                   = PyOr(stk[R].network, stk[R].network_id)}}

\* mutant: the edges are inserted the wrong way round
Router_edges_Reversed(R, stk) ==
    Resource_add_dependencies(R)
    \cup {<<e[2], e[1]>> : e \in Router_subnet_edges(R, stk)}

\* everything Router.add_dependencies does to deps
Router_edges(R, stk) ==
    Resource_add_dependencies(R) \cup Router_subnet_edges(R, stk)

\* everything RouterGateway.add_dependencies does to deps
RouterGateway_edges(R, stk) ==
    Resource_add_dependencies(R)
    \cup RouterGateway_interface_edges(R, stk)
    \cup RouterGateway_subnet_edges(R, stk)

Router_add_dependencies ==
    /\ \E R \in DOMAIN stack :
         /\ stack[R].type = "OS::Neutron::Router"
         /\ deps' = deps \cup Router_edges(R, stack)
    /\ UNCHANGED <<stack, lifecycleVars>>

RouterGateway_add_dependencies ==
    /\ \E R \in DOMAIN stack :
         /\ stack[R].type = "OS::Neutron::RouterGateway"
         /\ deps' = deps \cup RouterGateway_edges(R, stack)
    /\ UNCHANGED <<stack, lifecycleVars>>

\* the pass on a resource of another type: that of the base class
Other_add_dependencies ==
    /\ \E R \in DOMAIN stack :
         /\ stack[R].type \notin {"OS::Neutron::Router",
                                  "OS::Neutron::RouterGateway"}
         /\ deps' = deps \cup Resource_add_dependencies(R)
    /\ UNCHANGED <<stack, lifecycleVars>>

InitDeps ==
    /\ stack \in [Names -> Decls]
    /\ deps = {}
    /\ rtype = "none"
    /\ properties = <<>>
    /\ resource_id = None
    /\ action = "INIT"
    /\ raised = "none"
    /\ calls = <<>>
    /\ answer = "none"
    /\ attach = NoCall
    /\ prev = <<"INIT", "none">>
    /\ agents = <<>>

NextDeps ==
    \/ Router_add_dependencies
    \/ RouterGateway_add_dependencies
    \/ Other_add_dependencies

SpecDeps == InitDeps /\ [][NextDeps]_vars

(***************************************************************************)
(* The engine's record of the resource                                     *)
(***************************************************************************)
\* once a delete has completed the engine destroys the resource's record,
\* and the identifier with it
Destroy ==
    /\ action = "DELETE"
    /\ raised = "none"
    /\ action' = "DESTROYED"
    /\ resource_id' = None
    /\ UNCHANGED <<rtype, properties, raised, calls, answer, attach, prev, agents,
                   stack, deps>>

ValidProps(t) ==
    CASE t = "RouterInterface" ->
             {p \in RouterInterfaceProps : RouterInterface_validate(p)}
      [] t = "RouterGateway" ->
             {p \in RouterGatewayProps : RouterGateway_validate(p)}
      [] t = "Router" -> RouterProps

\* no template: the dependency pass is not under study
EmptyStack == <<>>

InitLifecycle ==
    /\ rtype \in {"Router", "RouterInterface", "RouterGateway"}
    /\ properties \in ValidProps(rtype)
    /\ resource_id = None
    /\ action = "INIT"
    /\ raised = "none"
    /\ calls = <<>>
    /\ answer = "none"
    /\ attach = NoCall
    /\ prev = <<"INIT", "none">>
    /\ agents = <<>>

Init ==
    /\ InitLifecycle
    /\ stack = EmptyStack
    /\ deps = {}

Next ==
    \/ RouterInterface_handle_create
    \/ RouterInterface_handle_delete
    \/ RouterGateway_handle_create
    \/ RouterGateway_handle_delete
    \/ Router_handle_create
    \/ Router_handle_delete
    \/ Destroy

Spec == Init /\ [][Next]_vars

(***************************************************************************)
(* Identifiers read back from the engine's store, legacy and damaged ones  *)
(* included: the resource was created by an earlier run of the engine      *)
(***************************************************************************)
Delims == {":", "="}

\* a token of a stored identifier: it holds no delimiter
TokenPool == PlainStrs \cup {SUBNET_ID, PORT_ID}

RECURSIVE Join(_, _)
Join(toks, seps) ==
    IF Len(toks) = 1 THEN toks[1]
    ELSE toks[1] \o <<seps[1]>> \o Join(Tail(toks), Tail(seps))

\* rid is a stored identifier: unset, or up to MaxTokens tokens with a
\* delimiter between each two
IsStoredId(rid) ==
    \/ rid = None
    \/ \E n \in 1..MaxTokens :
          \E t \in [1..n -> TokenPool], s \in [1..(n - 1) -> Delims] :
              rid = Join(t, s)

InitStored ==
    /\ rtype = "RouterInterface"
    /\ properties = [router_id |-> <<"a">>, subnet |-> None,
                     subnet_id |-> <<"a">>, port_id |-> None]
    /\ IsStoredId(resource_id)
    /\ action = "CREATE"
    /\ raised = "none"
    /\ calls = <<>>
    /\ answer = "none"
    /\ attach = NoCall
    /\ prev = <<"INIT", "none">>
    /\ agents = <<>>
    /\ stack = EmptyStack
    /\ deps = {}

NextStored ==
    \/ RouterInterface_handle_delete
    \/ Destroy

SpecStored == InitStored /\ [][NextStored]_vars

(***************************************************************************)
(* Properties of the identifier codec                                      *)
(***************************************************************************)
NoDelims(s) == s # None /\ \A i \in 1..Len(s) : s[i] \notin Delims

\* the number of tokens of an identifier: one more than its delimiters
NumTokens(s) == 1 + Cardinality({i \in 1..Len(s) : s[i] \in Delims})

\* some token of the identifier is empty
EmptyField(s) ==
    \/ s = <<>>
    \/ s[1] \in Delims
    \/ s[Len(s)] \in Delims
    \/ \E i \in 1..(Len(s) - 1) : s[i] \in Delims /\ s[i + 1] \in Delims

\* C1: when the router id and the attachment value hold neither ':' nor '=',
\* the identifier handle_create stored is '<router_id>:<kind>=<value>' and
\* handle_delete calls remove_interface_router with the router id and the
\* {kind: value} body that add_interface_router was called with.
C1_RoundTrip ==
    (/\ rtype = "RouterInterface"
     /\ attach # NoCall
     /\ NoDelims(attach.target)
     /\ NoDelims(attach.body[2])
     /\ attach.body[1] \in {SUBNET_ID, PORT_ID})
    => /\ action \in {"CREATE", "DELETE"} =>
              resource_id = attach.target \o <<":">> \o attach.body[1]
                            \o <<"=">> \o attach.body[2]
       /\ action = "DELETE" =>
              calls = <<Call("remove_interface_router", attach.target,
                             attach.body)>>

C1_Witness ==
    /\ rtype = "RouterInterface"
    /\ action = "DELETE"
    /\ attach = Call("add_interface_router", <<"a">>, <<PORT_ID, <<"a", "a">>>>)
    /\ calls = <<Call("remove_interface_router", <<"a">>,
                      <<PORT_ID, <<"a", "a">>>>)>>
    /\ answer = "ok"

\* C2: a two-token identifier '<router_id>:<value>' is decoded by
\* handle_delete as '<router_id>:subnet_id=<value>' is: the detach call is
\* for (router_id, subnet_id, value), never for the port kind.
C2_Legacy ==
    \A r \in TokenPool, v \in TokenPool :
        (/\ rtype = "RouterInterface"
         /\ action = "DELETE"
         /\ resource_id = r \o <<":">> \o v)
        => /\ calls = <<Call("remove_interface_router", r, <<SUBNET_ID, v>>)>>
           /\ InterfaceTokens(resource_id) = <<r, SUBNET_ID, v>>
           /\ InterfaceTokens(resource_id) =
                  InterfaceTokens(r \o <<":">> \o SUBNET_ID \o <<"=">> \o v)

C2_Witness ==
    /\ rtype = "RouterInterface"
    /\ action = "DELETE"
    /\ resource_id = <<"a", ":", "a", "a">>
    /\ calls = <<Call("remove_interface_router", <<"a">>,
                      <<SUBNET_ID, <<"a", "a">>>>)>>

\* C3 as claimed: an identifier whose token count is neither 2 nor 3, or
\* that has an empty field (the one-token and the empty identifier
\* included), makes handle_delete fail and issue no detach call.
C3_MalformedFails ==
    (/\ rtype = "RouterInterface"
     /\ action = "DELETE"
     /\ resource_id # None
     /\ NumTokens(resource_id) \notin {2, 3} \/ EmptyField(resource_id))
    => raised # "none" /\ calls = <<>>

\* C3 as amended: a non-empty identifier whose token count is neither 2 nor 3
\* makes handle_delete fail with ValueError before any detach call; the
\* empty or unset identifier makes it return at once, with no call and no
\* error; an identifier of 2 or 3 tokens is decoded and the detach call
\* issued, empty fields or not.
C3_TokenCountFails ==
    (rtype = "RouterInterface" /\ action = "DELETE")
    => /\ (Truthy(resource_id) /\ NumTokens(resource_id) \notin {2, 3})
              => raised = "ValueError" /\ calls = <<>>
       /\ ~Truthy(resource_id) => raised = "none" /\ calls = <<>>
       /\ (Truthy(resource_id) /\ NumTokens(resource_id) \in {2, 3})
              => /\ Len(calls) = 1
                 /\ calls[1].api = "remove_interface_router"
                 /\ raised \in {"none", "NeutronClientException"}

C3_Witness ==
    /\ rtype = "RouterInterface"
    /\ action = "DELETE"
    /\ resource_id = <<"a", "a">>
    /\ raised = "ValueError"
    /\ calls = <<>>

(***************************************************************************)
(* Properties of the handlers                                              *)
(***************************************************************************)
\* C8: when the API answers the detach or delete call of a handle_delete
\* with not-found, the delete ends as a success; any other API error is
\* raised. So a second delete in a row, which sees not-found, succeeds too.
C8_IdempotentDelete ==
    (/\ rtype \in {"RouterInterface", "RouterGateway", "Router"}
     /\ action = "DELETE"
     /\ calls # <<>>)
    => /\ answer \in {"ok", "not_found"} => raised = "none"
       /\ answer = "error" => raised = "NeutronClientException"

C8_Witness ==
    /\ rtype = "RouterInterface"
    /\ prev = <<"DELETE", "none">>
    /\ action = "DELETE"
    /\ calls # <<>>
    /\ answer = "not_found"
    /\ raised = "none"

\* C9: on a RouterInterface or RouterGateway the identifier is set once,
\* from unset, by a handle_create whose attach call succeeded; a failed
\* create leaves it unset; once set it changes only by being discarded
\* after a successful delete; a delete on an unset identifier issues no
\* API call.
C9_IdLifecycle ==
    [][(rtype \in {"RouterInterface", "RouterGateway"}) =>
        (/\ (resource_id' # resource_id /\ resource_id' # None)
               => /\ resource_id = None
                  /\ action = "INIT" /\ action' = "CREATE"
                  /\ raised' = "none" /\ answer' = "ok"
                  /\ Len(calls') = 1
                  /\ calls'[1].api \in {"add_interface_router",
                                        "add_gateway_router"}
         /\ (action' = "CREATE" /\ action = "INIT" /\ raised' # "none")
               => resource_id' = None
         /\ (resource_id # None /\ resource_id' # resource_id)
               => /\ resource_id' = None
                  /\ action = "DELETE" /\ raised = "none"
                  /\ action' = "DESTROYED"
         /\ (action' = "DELETE" /\ action # "DESTROYED" /\ resource_id = None)
               => calls' = <<>> /\ raised' = "none")]_vars

C9_Witness ==
    /\ rtype = "RouterGateway"
    /\ action = "DESTROYED"
    /\ attach # NoCall
    /\ resource_id = None
    /\ calls # <<>>
    /\ answer = "ok"

(***************************************************************************)
(* Properties of the dependency pass                                       *)
(***************************************************************************)
\* add_dependencies has run on R
Passed(R) == <<R, NoRes>> \in deps

IsSubnet(S) == stack[S].type = "OS::Neutron::Subnet"

IsInterface(S) == stack[S].type = "OS::Neutron::RouterInterface"

IsGateway(R) == stack[R].type = "OS::Neutron::RouterGateway"

IsRouter(R) == stack[R].type = "OS::Neutron::Router"

\* the network of a subnet: its network when set, else its network_id
EffectiveNetwork(S) ==
    IF stack[S].network # None THEN stack[S].network ELSE stack[S].network_id

\* the external network R declares for its gateway (None: it declares none)
GatewayNetwork(R) ==
    IF IsRouter(R)
    THEN IF stack[R].external_gateway_info = None THEN None
         ELSE stack[R].external_gateway_info[2]
    ELSE IF IsGateway(R)
    THEN IF stack[R].network # None THEN stack[R].network
         ELSE stack[R].network_id
    ELSE None

\* C4: for a Router or RouterGateway R that declares the gateway network N,
\* the pass gives R an edge to a subnet sibling S exactly when the effective
\* network of S is N; a Router gets no other edge, a RouterGateway no other
\* edge than to router interfaces.
C4_GatewaySubnetRule ==
    \A R \in DOMAIN stack :
        (Passed(R) /\ (IsRouter(R) \/ IsGateway(R)) /\ GatewayNetwork(R) # None)
        => /\ \A S \in DOMAIN stack :
                  IsSubnet(S) =>
                      (<<R, S>> \in deps <=> EffectiveNetwork(S) = GatewayNetwork(R))
           /\ \A S \in DOMAIN stack :
                  (<<R, S>> \in deps /\ ~IsSubnet(S))
                      => IsGateway(R) /\ IsInterface(S)

C4_Witness ==
    \E R, S \in DOMAIN stack :
        /\ IsRouter(R)
        /\ stack[R].external_gateway_info = <<"network", NetA>>
        /\ IsSubnet(S)
        /\ stack[S].network = NetA
        /\ stack[S].network_id = NetB
        /\ {e \in deps : e[1] = R} = {<<R, NoRes>>, <<R, S>>}

\* C5: the pass gives a RouterGateway R, bound to a router, an edge to a
\* router-interface sibling S exactly when the router_id of S equals that
\* of R.
C5_SharedRouterInterface ==
    \A R, S \in DOMAIN stack :
        (Passed(R) /\ IsGateway(R) /\ stack[R].router_id # None
                   /\ IsInterface(S))
        => (<<R, S>> \in deps <=> stack[S].router_id = stack[R].router_id)

C5_Witness ==
    \E R, S \in DOMAIN stack :
        /\ IsGateway(R)
        /\ IsInterface(S)
        /\ stack[R].router_id = <<"r", "t", "r", "-", "1">>
        /\ stack[S].router_id = <<"r", "t", "r", "-", "1">>
        /\ <<R, S>> \in deps

\* C6 as claimed: for two RouterGateway resources R1 and R2, the pass on R1
\* gives the edge (R1, R2) when both declare the same router id, and no
\* edge when they declare different ones.
C6_GatewayPairEdge ==
    \A R1, R2 \in DOMAIN stack :
        (/\ R1 # R2
         /\ Passed(R1)
         /\ IsGateway(R1) /\ IsGateway(R2)
         /\ stack[R1].router_id # None /\ stack[R2].router_id # None)
        => (<<R1, R2>> \in deps <=> stack[R1].router_id = stack[R2].router_id)

\* C6 as amended: the pass on a RouterGateway R1 gives no edge to another
\* RouterGateway R2, whether they declare the same router id or different
\* ones; the shared-router edge goes to router interfaces only.
C6_NoGatewayPairEdge ==
    \A R1, R2 \in DOMAIN stack :
        (Passed(R1) /\ IsGateway(R1) /\ IsGateway(R2)) => <<R1, R2>> \notin deps

C6_Witness ==
    \E R1, R2 \in DOMAIN stack :
        /\ R1 # R2
        /\ IsGateway(R1) /\ IsGateway(R2)
        /\ stack[R1].router_id = <<"r", "t", "r", "-", "1">>
        /\ stack[R2].router_id = <<"r", "t", "r", "-", "1">>
        /\ Passed(R1) /\ Passed(R2)
        /\ <<R1, R2>> \notin deps

\* C7: the pass on a Router or RouterGateway R gives no edge to a subnet
\* sibling with neither network nor network_id, none to a router-interface
\* sibling with no router_id, and none to any subnet when R declares no
\* gateway network.
C7_MissingSkipped ==
    \A R, S \in DOMAIN stack :
        (Passed(R) /\ (IsRouter(R) \/ IsGateway(R)))
        => /\ (IsSubnet(S) /\ stack[S].network = None
                           /\ stack[S].network_id = None)
                  => <<R, S>> \notin deps
           /\ (IsInterface(S) /\ stack[S].router_id = None)
                  => <<R, S>> \notin deps
           /\ (IsSubnet(S) /\ GatewayNetwork(R) = None)
                  => <<R, S>> \notin deps

\* C10: a call of add_dependencies on a Router or RouterGateway R keeps
\* every entry of the graph, adds only entries whose dependent is R, and
\* leaves the resources of the stack as they were.
C10_Additive ==
    [][/\ deps \subseteq deps'
       /\ \E R \in DOMAIN stack :
              /\ <<R, NoRes>> \in deps'
              /\ \A e \in deps' \ deps : e[1] = R
       /\ stack' = stack]_vars

C10_Witness ==
    \E R, S \in DOMAIN stack :
        /\ IsRouter(R)
        /\ IsSubnet(S)
        /\ <<R, S>> \in deps
        /\ <<S, NoRes>> \in deps

(***************************************************************************)
(* Properties of Router.handle_create                                      *)
(***************************************************************************)
\* create_router was called and did not raise
RouterCreated ==
    /\ calls # <<>>
    /\ calls[1].api = "create_router"
    /\ Len(calls) > 1 \/ answer = "ok"

ReschedulingApis ==
    {"list_l3_agent_hosting_routers", "remove_router_from_l3_agent",
     "add_router_to_l3_agent"}

\* C11: after Router.handle_create the identifier is set exactly when
\* create_router succeeded, also when a rescheduling call failed after it,
\* and a later delete is for that identifier; rescheduling calls are issued
\* only when l3_agent_id is given, and then begin with the list call; the
\* remove calls are for the hosting agents, in their order, and all of them
\* precede the add call, which is single, for l3_agent_id, and the last call.
C11_CreateOrdering ==
    /\ (rtype = "Router" /\ action = "CREATE")
       => /\ RouterCreated <=> resource_id # None
          /\ (raised # "none" /\ Len(calls) > 1) => resource_id # None
          /\ (\E i \in 1..Len(calls) : calls[i].api \in ReschedulingApis)
                 <=> (RouterCreated /\ Truthy(properties.l3_agent_id))
          /\ Len(calls) > 1
                 => calls[2] = Call("list_l3_agent_hosting_routers",
                                    resource_id, <<>>)
          /\ \A i \in 1..Len(calls) :
                 calls[i].api = "remove_router_from_l3_agent"
                     => /\ i - 2 \in 1..Len(agents)
                        /\ calls[i] = Call("remove_router_from_l3_agent",
                                           agents[i - 2], resource_id)
          /\ \A j \in 1..Len(calls) :
                 calls[j].api = "add_router_to_l3_agent"
                     => /\ j = Len(calls)
                        /\ j = Len(agents) + 3
                        /\ calls[j] = Call("add_router_to_l3_agent",
                                           properties.l3_agent_id, resource_id)
                        /\ \A i \in 3..(j - 1) :
                               calls[i].api = "remove_router_from_l3_agent"
          /\ (raised = "none" /\ Truthy(properties.l3_agent_id))
                 => calls[Len(calls)].api = "add_router_to_l3_agent"
    /\ (rtype = "Router" /\ action = "DELETE" /\ attach # NoCall)
       => /\ resource_id # None
          /\ calls = <<Call("delete_router", resource_id, <<>>)>>

C11_Witness ==
    /\ rtype = "Router"
    /\ action = "CREATE"
    /\ raised = "NeutronClientException"
    /\ Len(agents) = 2
    /\ Len(calls) = 4
    /\ calls[4].api = "remove_router_from_l3_agent"
    /\ resource_id # None

====
